---- MODULE Spec2Model ----
(***************************************************************************)
(* A model of the two-player rollback arena game of src/src/main.rs:       *)
(* the FrameTimer, the six systems of the rollback schedule, the           *)
(* matchmaking system wait_for_players and the rollback registration       *)
(* (which entities carry a Rollback id, which component types are          *)
(* registered), driven by a rollback session that predicts the remote      *)
(* input, saves a snapshot per frame, and loads and resimulates when a     *)
(* prediction turns out wrong.                                             *)
(*                                                                         *)
(* Numbers.  Lengths are fixed-point, in thousandths of a world unit       *)
(* (0.03 is 30), rounded to the nearest thousandth after every product.    *)
(* A heading is the whole number of 0.13 rad turn steps made so far,       *)
(* on top of the half turn the entity was created with; its direction      *)
(* vector is read from a table of cos and sin of n * 0.13.  A u32 is kept  *)
(* as its 32-bit pattern read as a two's complement integer, so that       *)
(* 0 - 1 is -1, the pattern of 4294967295.                                 *)
(***************************************************************************)
EXTENDS Integers, Sequences, FiniteSets, TLC

VARIABLES
    state,          \* State<GameState>: "Matchmaking" or "InGame"
    socket,         \* the Option<WebRtcSocket> resource: "Some" or "None"
    connected,      \* peers connected by the message loop, not yet accepted
    players,        \* socket.players().len(): the local player and accepted peers
    session,        \* the session resource: "None" or "P2PSession"
    panic,          \* "none", or the message of the expect() that panicked
    transitions,    \* how many times state.set(GameState::InGame) has run
    polls,          \* what the last wait_for_players call did
    scenario,       \* the keys the two players hold, and for how long
    world,          \* the entities: two rollback entities and the trail
    frame,          \* the frame the session simulates next
    saved,          \* the session's snapshot per frame
    requests,       \* the requests of the running session step
    localIn,        \* the local input symbols, by frame
    remoteIn,       \* the confirmed remote input symbols, by frame
    usedIn,         \* the remote symbol each simulated frame used
    firstIncorrect, \* the first frame simulated with a wrong prediction, or -1
    ideal,          \* the world simulated with the correct inputs only
    boundary,       \* the whole world as it was when each frame was saved
    loaded,         \* the frame just loaded, and -1 otherwise
    lastTick,       \* what the schedule run of this step did
    elim,           \* the handles a despawn command has been issued for
    born,           \* the frame each segment of world.trail was spawned for
    elimAt,         \* by handle: the frame of its first despawn command, or -1,
                    \* and the owners of the segments it was touching then
    tm,             \* a FrameTimer under test
    tmPeriod,       \* the period it was built with
    tmCalls,        \* the number of tick() calls made on it
    tmState,        \* "none", "live" or "panicked"
    runA,           \* a first run of the schedule
    runB,           \* a second run of the schedule, on the same input symbols
    runTicks,       \* the number of schedule runs both have made
    pressed,        \* the keys Input<KeyCode> reports as pressed
    asked,          \* the handle the input system was called for
    symbol          \* the byte the input system returned

vars == <<state, socket, connected, players, session, panic, transitions, polls,
          scenario, world, frame, saved, requests, localIn, remoteIn, usedIn,
          firstIncorrect, ideal, boundary, loaded, lastTick, elim, born, elimAt,
          tm, tmPeriod, tmCalls, tmState, runA, runB, runTicks,
          pressed, asked, symbol>>

matchVars == <<state, socket, connected, players, session, panic, transitions, polls>>
gameVars  == <<scenario, world, frame, saved, requests, localIn, remoteIn, usedIn,
               firstIncorrect, ideal, boundary, loaded, lastTick, elim, born, elimAt>>
timerVars == <<tm, tmPeriod, tmCalls, tmState>>
detVars   == <<runA, runB, runTicks>>
codecVars == <<pressed, asked, symbol>>

(***************************************************************************)
(* Bounds of the model.                                                    *)
(***************************************************************************)
FreeFrames == 3      \* frames simulated after the opening, with free inputs
HoldTurn == 31       \* frames of the opening in which player 0 turns left
HoldDash == 57       \* frames of the opening in which both players dash
HoldStraight == 196  \* frames of the opening in which no key is pressed at all
HoldDecay == 79      \* frames of the opening with no key, free inputs after it
HoldHunt == 112      \* frames of the opening in which player 1 turns right
HoldAbout == 24      \* frames of it in which player 0 turns left, to face about
MaxPrediction == 2   \* frames the session may run ahead of the remote input
MaxPeers == 2        \* peers the message loop may connect
MaxPeriod == 6       \* periods a FrameTimer under test is built with
MaxCalls == 20       \* tick() calls made on a FrameTimer under test
MaxRuns == 2         \* schedule runs of the two compared runs

(***************************************************************************)
(* Constants of the program, lengths in thousandths.                       *)
(***************************************************************************)
PLAYER_SIZE == 750
BOARD_SIZE == 9000
TRAIL_LENGTH == 80
TRAIL_SIZE == 200
MOVE_SPEED == 30
INPUT_LEFT == 1
INPUT_RIGHT == 2
INPUT_DASH == 4
num_players == 2
\* the period of the TrailSpawner timers that spawn_players builds
SpawnPeriod == 2

\* cos(0.13 * n) and sin(0.13 * n), in thousandths, for n = 0 .. 64:
\* the directions reached by n calls of rotate_z(0.13)
CosTable ==
    << 1000, 992, 966, 925, 868, 796, 711, 614, 506, 390, 267, 140, 11,
       -119, -247, -370, -487, -597, -696, -783, -857, -916, -961, -989, -1000, -994,
       -972, -933, -878, -809, -726, -631, -525, -410, -288, -162, -32, 97, 226,
       350, 469, 579, 680, 769, 846, 908, 954, 985, 999, 996, 977, 940,
       888, 821, 741, 647, 543, 430, 309, 183, 54, -76, -205, -330, -449 >>
SinTable ==
    << 0, 130, 257, 380, 497, 605, 703, 790, 862, 921, 964, 990, 1000,
       993, 969, 929, 873, 803, 718, 622, 516, 400, 278, 151, 22, -108,
       -236, -360, -478, -588, -688, -776, -851, -912, -958, -987, -999, -995, -974,
       -937, -883, -815, -733, -639, -534, -420, -299, -172, -43, 87, 215, 340,
       459, 570, 672, 762, 840, 903, 951, 983, 999, 997, 979, 944, 893 >>

Abs(a) == IF a < 0 THEN -a ELSE a
Sign(a) == IF a < 0 THEN -1 ELSE 1
\* a / 1000 rounded to the nearest integer, halves away from zero
Round(a) == Sign(a) * ((Abs(a) + 500) \div 1000)
HasFlag(input, flag) == (input \div flag) % 2 = 1

(***************************************************************************)
(* FrameTimer                                                              *)
(***************************************************************************)
\* x - 1 on a u32 in a build without overflow checks: 0 wraps to 4294967295
U32Dec(x) == IF x = -2147483647 - 1 THEN 2147483647 ELSE x - 1
\* a <= b on u32 patterns
U32Le(a, b) ==
    IF (a < 0) = (b < 0) THEN a <= b ELSE b < 0

new(frames) == [frames_left |-> frames, reset_to |-> frames]

\* tick() of a build with overflow checks panics exactly when this holds
tick_overflows(timer) == timer.frames_left = 0

\* tick() that tests for 0 before it decrements: a period of frames + 1
tick_late_reset(timer) ==
    [timer EXCEPT !.frames_left =
        IF timer.frames_left = 0 THEN timer.reset_to ELSE U32Dec(timer.frames_left)]

\* tick() without the reset at 0
tick_no_reset(timer) == [timer EXCEPT !.frames_left = U32Dec(timer.frames_left)]

tick(timer) ==
    LET left == U32Dec(timer.frames_left)
    IN  [timer EXCEPT !.frames_left = IF left = 0 THEN timer.reset_to ELSE left]

finished(timer) == timer.frames_left = timer.reset_to

(***************************************************************************)
(* Entities.  world.ents[h + 1] is the entity with Rollback id h, created  *)
(* by spawn_players with Player { handle: h }; world.trail is the sequence *)
(* of the Trail entities, oldest first.                                    *)
(*   kind "Player"    the entity has its Player component                  *)
(*   kind "NoPlayer"  the entity exists without a Player component        *)
(*   kind "Despawned" the entity does not exist                            *)
(***************************************************************************)
Handles == {0, 1}

Despawned ==
    [kind |-> "Despawned", handle |-> -1, x |-> 0, y |-> 0, half |-> 0, rot |-> 0,
     timer |-> new(0)]

\* Transform.local_x(): the direction of the heading, in thousandths
LocalX(e) ==
    LET s == IF e.half = 1 THEN -1 ELSE 1
    IN  [x |-> s * CosTable[Abs(e.rot) + 1],
         y |-> s * Sign(e.rot) * SinTable[Abs(e.rot) + 1]]

\* the entities matched by a query that asks for &Player or With<Player>
PlayerQuery(w) == {i \in DOMAIN w.ents : w.ents[i].kind = "Player"}

\* spawn_players with the handles counted from 1
spawn_players_from_one ==
    [ents  |-> << [kind |-> "Player", handle |-> 1, x |-> -1000, y |-> 0,
                   half |-> 1, rot |-> 0, timer |-> new(2)],
                  [kind |-> "Player", handle |-> 2, x |-> 1000, y |-> 0,
                   half |-> 0, rot |-> 0, timer |-> new(2)] >>,
     trail |-> << >>]

spawn_players ==
    [ents  |-> << [kind |-> "Player", handle |-> 0, x |-> -1000, y |-> 0,
                   half |-> 1, rot |-> 0, timer |-> new(2)],
                  [kind |-> "Player", handle |-> 1, x |-> 1000, y |-> 0,
                   half |-> 0, rot |-> 0, timer |-> new(2)] >>,
     trail |-> << >>]

(***************************************************************************)
(* The systems of the rollback schedule.  inputs[h + 1] is the pair        *)
(* (symbol, status) of handle h.  Commands are applied when the stage      *)
(* ends, so a system sees no spawn or despawn of the same schedule run.    *)
(***************************************************************************)
Angle(input) ==
    (IF HasFlag(input, INPUT_LEFT) THEN 1 ELSE 0)
    - (IF HasFlag(input, INPUT_RIGHT) THEN 1 ELSE 0)

\* rotate_players that turns on confirmed inputs only
rotate_players_confirmed(w, inputs) ==
    [w EXCEPT !.ents = [i \in DOMAIN w.ents |->
        IF i \in PlayerQuery(w) /\ inputs[w.ents[i].handle + 1].status = "Confirmed"
        THEN LET e == w.ents[i]
             IN  [e EXCEPT !.rot = e.rot + Angle(inputs[e.handle + 1].sym)]
        ELSE w.ents[i]]]

rotate_players(w, inputs) ==
    [w EXCEPT !.ents = [i \in DOMAIN w.ents |->
        IF i \in PlayerQuery(w)
        THEN LET e == w.ents[i]
             IN  [e EXCEPT !.rot = e.rot + Angle(inputs[e.handle + 1].sym)]
        ELSE w.ents[i]]]

move_players_forward(w, inputs) ==
    [w EXCEPT !.ents = [i \in DOMAIN w.ents |->
        IF i \in PlayerQuery(w)
        THEN LET e == w.ents[i]
                 speed_multiplier ==
                     IF HasFlag(inputs[e.handle + 1].sym, INPUT_DASH) THEN 2 ELSE 1
                 movement_direction == LocalX(e)
             IN  [e EXCEPT
                    !.x = e.x + Round(movement_direction.x * MOVE_SPEED * speed_multiplier),
                    !.y = e.y + Round(movement_direction.y * MOVE_SPEED * speed_multiplier)]
        ELSE w.ents[i]]]

\* the Trail entity spawn_trail spawns behind entity e
NewTrail(e) ==
    [player_handle |-> e.handle,
     x |-> e.x - Round(((PLAYER_SIZE + TRAIL_SIZE) \div 2) * LocalX(e).x),
     y |-> e.y - Round(((PLAYER_SIZE + TRAIL_SIZE) \div 2) * LocalX(e).y),
     death_timer |-> new(TRAIL_LENGTH)]

\* spawn_trail: the timers it ticks
spawn_trail(w) ==
    [w EXCEPT !.ents = [i \in DOMAIN w.ents |->
        IF i \in PlayerQuery(w)
        THEN [w.ents[i] EXCEPT !.timer = tick(w.ents[i].timer)]
        ELSE w.ents[i]]]

\* spawn_trail that spawns for every player, whatever its timer reads
Spawners_all(w) == PlayerQuery(w)

\* spawn_trail: the entities whose timer has finished, after the ticks
Spawners(w) == {i \in PlayerQuery(w) : finished(w.ents[i].timer)}

RECURSIVE SpawnCommands(_, _)
SpawnCommands(w, i) ==
    IF i > Len(w.ents) THEN << >>
    ELSE (IF i \in Spawners(w) THEN << NewTrail(w.ents[i]) >> ELSE << >>)
         \o SpawnCommands(w, i + 1)

\* kill_trail that ticks the segments of the players in the roster only
kill_trail_of_players(w) ==
    [w EXCEPT !.trail = [k \in DOMAIN w.trail |->
        IF \E i \in PlayerQuery(w) : w.ents[i].handle = w.trail[k].player_handle
        THEN [w.trail[k] EXCEPT !.death_timer = tick(w.trail[k].death_timer)]
        ELSE w.trail[k]]]

\* kill_trail: the timers it ticks
kill_trail(w) ==
    [w EXCEPT !.trail = [k \in DOMAIN w.trail |->
        [w.trail[k] EXCEPT !.death_timer = tick(w.trail[k].death_timer)]]]

\* kill_trail: the segments it despawns, after the ticks
Decayed(w) == {k \in DOMAIN w.trail : finished(w.trail[k].death_timer)}

Dist2(ax, ay, bx, by) == (ax - bx) * (ax - bx) + (ay - by) * (ay - by)

\* border_death that compares with the side of the board, not with its half
border_death_side(w) ==
    {i \in PlayerQuery(w) :
        Dist2(w.ents[i].x, w.ents[i].y, 0, 0) > BOARD_SIZE * BOARD_SIZE}

\* border_death: the entities it despawns
border_death(w) ==
    {i \in PlayerQuery(w) :
        Dist2(w.ents[i].x, w.ents[i].y, 0, 0) > (BOARD_SIZE \div 2) * (BOARD_SIZE \div 2)}

\* trail_death: the segments entity i is closer to than the two half sizes
Touching(w, i) ==
    {k \in DOMAIN w.trail :
        Dist2(w.ents[i].x, w.ents[i].y, w.trail[k].x, w.trail[k].y)
            < ((PLAYER_SIZE + TRAIL_SIZE) \div 2) * ((PLAYER_SIZE + TRAIL_SIZE) \div 2)}

\* trail_death: the entities it despawns
trail_death(w) ==
    {i \in PlayerQuery(w) : \E k \in DOMAIN w.trail :
        Dist2(w.ents[i].x, w.ents[i].y, w.trail[k].x, w.trail[k].y)
            < ((PLAYER_SIZE + TRAIL_SIZE) \div 2) * ((PLAYER_SIZE + TRAIL_SIZE) \div 2)}

RECURSIVE Keep(_, _, _)
Keep(s, drop, k) ==
    IF k > Len(s) THEN << >>
    ELSE (IF k \in drop THEN << >> ELSE << s[k] >>) \o Keep(s, drop, k + 1)

\* the commands applied without the despawns of players
ApplyCommands_no_despawn(w, spawn, kill, despawn) ==
    [ents  |-> w.ents,
     trail |-> Keep(w.trail, kill, 1) \o spawn]

\* the commands of one schedule run, applied to the world at the stage's end
ApplyCommands(w, spawn, kill, despawn) ==
    [ents  |-> [i \in DOMAIN w.ents |-> IF i \in despawn THEN Despawned ELSE w.ents[i]],
     trail |-> Keep(w.trail, kill, 1) \o spawn]

\* the schedule with spawn_trail run first, before the players turn and move
RollbackStage_spawn_first(w, inputs) ==
    LET w1 == spawn_trail(w)
        w2 == rotate_players(w1, inputs)
        w3 == move_players_forward(w2, inputs)
        w4 == kill_trail(w3)
    IN  ApplyCommands(w4, SpawnCommands(w1, 1), Decayed(w4),
                      border_death(w4) \cup trail_death(w4))

\* ROLLBACK_STAGE: the six systems in their order, then the commands
RollbackStage(w, inputs) ==
    LET w1 == rotate_players(w, inputs)
        w2 == move_players_forward(w1, inputs)
        w3 == spawn_trail(w2)
        w4 == kill_trail(w3)
    IN  ApplyCommands(w4, SpawnCommands(w3, 1), Decayed(w4),
                      border_death(w4) \cup trail_death(w4))

\* what one schedule run did, for the record
TickRecord(w, inputs) ==
    LET w1 == rotate_players(w, inputs)
        w2 == move_players_forward(w1, inputs)
        w3 == spawn_trail(w2)
        w4 == kill_trail(w3)
    IN  [ran     |-> TRUE,
         rotate  |-> {w.ents[i].handle : i \in PlayerQuery(w)},
         advance |-> {w1.ents[i].handle : i \in PlayerQuery(w1)},
         spawner |-> {w2.ents[i].handle : i \in PlayerQuery(w2)},
         spawned |-> {w3.ents[i].handle : i \in Spawners(w3)},
         border  |-> {w4.ents[i].handle : i \in border_death(w4)},
         trail   |-> {w4.ents[i].handle : i \in trail_death(w4)},
         checked |-> {w4.ents[i].handle : i \in PlayerQuery(w4)},
         hits    |-> {hk \in Handles \X DOMAIN w4.trail :
                        \E i \in PlayerQuery(w4) :
                           w4.ents[i].handle = hk[1] /\ hk[2] \in Touching(w4, i)},
         decayed |-> Decayed(w4)]

NoTick ==
    [ran |-> FALSE, rotate |-> {}, advance |-> {}, spawner |-> {}, spawned |-> {},
     border |-> {}, trail |-> {}, checked |-> {}, hits |-> {}, decayed |-> {}]

\* the frames the segments of the trail were spawned for, after a schedule
\* run for frame f: b is aligned with w.trail
Births(w, inputs, f, b) ==
    LET w3 == spawn_trail(move_players_forward(rotate_players(w, inputs), inputs))
        w4 == kill_trail(w3)
    IN  Keep(b, Decayed(w4), 1) \o [k \in 1 .. Len(SpawnCommands(w3, 1)) |-> f]

(***************************************************************************)
(* The input system.  keys is the set of pressed keys.                     *)
(***************************************************************************)
KeyCodes == {"Left", "A", "Right", "D", "Space", "Return"}

RECURSIVE BitOr(_, _)
BitOr(a, b) ==
    IF a = 0 THEN b
    ELSE IF b = 0 THEN a
    ELSE (IF a % 2 = 1 \/ b % 2 = 1 THEN 1 ELSE 0) + 2 * BitOr(a \div 2, b \div 2)

any_pressed(keys, among) == keys \cap among # {}

\* input that assigns each flag where the code ors it in
input_assign(keys) ==
    LET i1 == IF any_pressed(keys, {"Left", "A"}) THEN INPUT_LEFT ELSE 0
        i2 == IF any_pressed(keys, {"Right", "D"}) THEN INPUT_RIGHT ELSE i1
        i3 == IF any_pressed(keys, {"Space", "Return"}) THEN INPUT_DASH ELSE i2
    IN  i3

input(keys) ==
    LET i1 == IF any_pressed(keys, {"Left", "A"}) THEN BitOr(0, INPUT_LEFT) ELSE 0
        i2 == IF any_pressed(keys, {"Right", "D"}) THEN BitOr(i1, INPUT_RIGHT) ELSE i1
        i3 == IF any_pressed(keys, {"Space", "Return"}) THEN BitOr(i2, INPUT_DASH) ELSE i2
    IN  i3

(***************************************************************************)
(* Matchmaking.                                                            *)
(***************************************************************************)
NoWorld == [ents |-> << >>, trail |-> << >>]

\* the message loop task of start_matchbox_socket connects one more peer
PeerConnects ==
    /\ panic = "none"
    /\ socket = "Some"
    /\ (players - 1) + connected < MaxPeers
    /\ connected' = connected + 1
    /\ UNCHANGED <<state, socket, players, session, panic, transitions, polls>>
    /\ UNCHANGED <<gameVars, timerVars, detVars, codecVars>>

\* add_player(player, i) is an error for a handle no player may have; the
\* session builder may report any other of its errors too
add_player_fails(n, reported) == n > num_players \/ reported

\* the comparison against one player too few
enough_players_one(n) == ~(n < num_players - 1)

\* players.len() < num_players does not hold
enough_players(n) == ~(n < num_players)

\* .expect("failed to add player") panics
add_player_panics ==
    /\ panic' = "failed to add player"
    /\ polls' = "panicked"
    /\ UNCHANGED <<state, socket, session, transitions>>

\* state.set(InGame) moved before the start of the session
start_session_panics_in_game ==
    /\ socket' = "None"
    /\ state' = "InGame"
    /\ transitions' = transitions + 1
    /\ panic' = "failed to start session"
    /\ polls' = "panicked"
    /\ UNCHANGED session

\* socket.take(), then .expect("failed to start session") panics
start_session_panics ==
    /\ socket' = "None"
    /\ panic' = "failed to start session"
    /\ polls' = "panicked"
    /\ UNCHANGED <<state, session, transitions>>

\* the session started on a socket that stays in its resource
start_session_keeps_socket ==
    /\ socket' = socket
    /\ session' = "P2PSession"
    /\ state' = "InGame"
    /\ transitions' = transitions + 1
    /\ polls' = "started"
    /\ UNCHANGED panic

\* socket.take(), the session is started and inserted, state.set(InGame)
start_session ==
    /\ socket' = "None"
    /\ session' = "P2PSession"
    /\ state' = "InGame"
    /\ transitions' = transitions + 1
    /\ polls' = "started"
    /\ UNCHANGED panic

\* one run of wait_for_players, scheduled on_update(GameState::Matchmaking).
\* addErr and startErr are what the session builder answers.
wait_for_players(addErr, startErr) ==
    LET n == players + connected
    IN  IF socket = "None"
        THEN /\ polls' = "no socket"
             /\ UNCHANGED <<state, socket, connected, players, session, panic, transitions>>
        ELSE /\ connected' = 0
             /\ players' = n
             /\ IF ~enough_players(n)
                THEN /\ polls' = "waiting"
                     /\ UNCHANGED <<state, socket, session, panic, transitions>>
                ELSE IF add_player_fails(n, addErr) THEN add_player_panics
                ELSE IF startErr THEN start_session_panics
                ELSE start_session

WaitForPlayers ==
    /\ panic = "none"
    /\ state = "Matchmaking"
    /\ \E addErr \in BOOLEAN, startErr \in BOOLEAN : wait_for_players(addErr, startErr)
    /\ UNCHANGED <<gameVars, timerVars, detVars, codecVars>>

(***************************************************************************)
(* The game.  A scenario is what the two players do with their keyboards.  *)
(* In the opening (hold frames, in which the remote input arrives before   *)
(* the frame is simulated) player h holds keys[h + 1] for until[h + 1]     *)
(* frames and no key after them; in every later frame the player presses   *)
(* free[h + 1] or nothing.                                                 *)
(***************************************************************************)
Scenarios ==
    { [hold |-> 0, keys |-> << {"Left"}, {"Space"} >>, until |-> << 0, 0 >>,
       free |-> << {"Left"}, {"Space"} >>, local |-> 0],
      [hold |-> HoldTurn, keys |-> << {"A"}, {"D"} >>, until |-> << HoldTurn, HoldTurn >>,
       free |-> << {"A"}, {"D"} >>, local |-> 1],
      [hold |-> HoldDash, keys |-> << {"Space"}, {"Return"} >>,
       until |-> << HoldDash, HoldDash >>,
       free |-> << {"Space"}, {"Return"} >>, local |-> 0],
      [hold |-> HoldStraight, keys |-> << {}, {} >>, until |-> << 0, 0 >>,
       free |-> << {}, {} >>, local |-> 0],
      [hold |-> HoldDecay, keys |-> << {}, {} >>, until |-> << 0, 0 >>,
       free |-> << {}, {"Space"} >>, local |-> 0],
      [hold |-> HoldHunt, keys |-> << {"Left"}, {"D"} >>, until |-> << HoldAbout, HoldHunt >>,
       free |-> << {"Left"}, {"Space"} >>, local |-> 0] }

NoScenario ==
    [hold |-> 0, keys |-> << {}, {} >>, until |-> << 0, 0 >>, free |-> << {}, {} >>,
     local |-> 0]

Remote == 1 - scenario.local
MaxFrame == scenario.hold + FreeFrames
Hold(h) == input(scenario.keys[h + 1])

\* on_enter(GameState::InGame): spawn_players
EnterInGame ==
    /\ panic = "none"
    /\ state = "InGame"
    /\ world = NoWorld
    /\ world' = spawn_players
    /\ ideal' = spawn_players
    /\ \E sc \in Scenarios : scenario' = sc
    /\ UNCHANGED <<frame, saved, requests, localIn, remoteIn, usedIn, firstIncorrect,
                   boundary, loaded, lastTick, elim, born, elimAt>>
    /\ UNCHANGED <<matchVars, timerVars, detVars, codecVars>>

(***************************************************************************)
(* Snapshots.  A snapshot holds, for every entity with a Rollback id, its  *)
(* components of the registered types Transform, TrailSpawner and Trail.   *)
(* spawn_players gives the two player entities a Rollback id; spawn_trail  *)
(* gives the Trail entities none; Player is not a registered type.         *)
(***************************************************************************)
RollbackIds(w) == {i \in DOMAIN w.ents : w.ents[i].kind # "Despawned"}

Registered(e) ==
    [x |-> e.x, y |-> e.y, half |-> e.half, rot |-> e.rot, timer |-> e.timer]

SaveWorld(w) == [i \in RollbackIds(w) |-> Registered(w.ents[i])]

\* an entity of the snapshot that the world no longer has is created anew,
\* with its Rollback id and the components the snapshot holds
Restored(e, c) ==
    [kind   |-> IF e.kind = "Despawned" THEN "NoPlayer" ELSE e.kind,
     handle |-> e.handle,
     x |-> c.x, y |-> c.y, half |-> c.half, rot |-> c.rot, timer |-> c.timer]

LoadWorld(w, snap) ==
    [ents  |-> [i \in DOMAIN w.ents |->
                  IF i \in DOMAIN snap THEN Restored(w.ents[i], snap[i]) ELSE Despawned],
     trail |-> w.trail]

(***************************************************************************)
(* The session.  Frame f is simulated with the local input of frame f and  *)
(* the remote input of frame f if it is confirmed, and else with the last  *)
(* confirmed remote input (0 when there is none).                          *)
(***************************************************************************)
Predicted(rin) == IF Len(rin) = 0 THEN 0 ELSE rin[Len(rin)]

\* the remote input frame f is simulated with, given the confirmed ones
RemoteFor(f, rin) ==
    IF f < Len(rin) THEN [sym |-> rin[f + 1], status |-> "Confirmed"]
    ELSE [sym |-> Predicted(rin), status |-> "Predicted"]

\* the input vector of frame f, by handle
InputsFor(f, lin, rin) ==
    [h \in 1 .. 2 |->
        IF h - 1 = scenario.local
        THEN [sym |-> lin[f + 1], status |-> "Confirmed"]
        ELSE RemoteFor(f, rin)]

RECURSIVE Resimulate(_, _, _, _)
\* the requests that resimulate the frames f .. upto - 1
Resimulate(f, upto, lin, rin) ==
    IF f >= upto THEN << >>
    ELSE << [op |-> "Advance", f |-> f, inputs |-> InputsFor(f, lin, rin)],
            [op |-> "Save", f |-> f + 1] >>
         \o Resimulate(f + 1, upto, lin, rin)

\* the keys of a player in frame f: held in the opening, free after it
KeysAt(f, h) ==
    IF f < scenario.hold
    THEN {IF f < scenario.until[h + 1] THEN scenario.keys[h + 1] ELSE {}}
    ELSE {{}, scenario.free[h + 1]}

Spawned == world # NoWorld
Running == panic = "none" /\ state = "InGame" /\ Spawned

\* the input of the remote player for its next frame arrives
Receive ==
    /\ Running
    /\ requests = << >>
    /\ Len(remoteIn) <= frame
    /\ Len(remoteIn) < MaxFrame
    /\ \E keys \in KeysAt(Len(remoteIn), Remote) :
         LET c == Len(remoteIn)
             s == input(keys)
         IN  /\ remoteIn' = Append(remoteIn, s)
             /\ firstIncorrect' =
                  IF firstIncorrect = -1 /\ c < frame /\ usedIn[c + 1] # s
                  THEN c ELSE firstIncorrect
             /\ ideal' =
                  IF c < frame
                  THEN RollbackStage(ideal, InputsFor(c, localIn, Append(remoteIn, s)))
                  ELSE ideal
    /\ loaded' = -1
    /\ lastTick' = NoTick
    /\ UNCHANGED <<scenario, world, frame, saved, requests, localIn, usedIn, boundary, elim,
                   born, elimAt>>
    /\ UNCHANGED <<matchVars, timerVars, detVars, codecVars>>

\* one step of the session: the local input is read, and the session asks
\* for a load and a resimulation if a prediction was wrong, then for a save
\* and the simulation of the new frame
SessionStep ==
    /\ Running
    /\ requests = << >>
    /\ frame < MaxFrame
    /\ frame - Len(remoteIn) < MaxPrediction
    /\ frame < scenario.hold => Len(remoteIn) > frame
    /\ \E keys \in KeysAt(frame, scenario.local) :
         LET lin == Append(localIn, input(keys))
             k == firstIncorrect
         IN  /\ localIn' = lin
             /\ usedIn' = [f \in 1 .. frame + 1 |->
                            IF (k # -1 /\ f > k) \/ f = frame + 1
                            THEN RemoteFor(f - 1, remoteIn).sym
                            ELSE usedIn[f]]
             /\ requests' =
                  (IF k # -1
                   THEN << [op |-> "Load", f |-> k] >> \o Resimulate(k, frame, lin, remoteIn)
                   ELSE << [op |-> "Save", f |-> frame] >>)
                  \o << [op |-> "Advance", f |-> frame,
                         inputs |-> InputsFor(frame, lin, remoteIn)] >>
             /\ ideal' =
                  IF Len(remoteIn) > frame
                  THEN RollbackStage(ideal, InputsFor(frame, lin, remoteIn))
                  ELSE ideal
    /\ frame' = frame + 1
    /\ firstIncorrect' = -1
    /\ loaded' = -1
    /\ lastTick' = NoTick
    /\ UNCHANGED <<scenario, world, saved, remoteIn, boundary, elim, born, elimAt>>
    /\ UNCHANGED <<matchVars, timerVars, detVars, codecVars>>

Head1 == Head(requests)

\* the frames whose snapshot the session keeps when it saves frame f
Kept(f) == {g \in DOMAIN saved : g >= f - MaxPrediction /\ g < f}

SaveGameState ==
    /\ Running
    /\ requests # << >>
    /\ Head1.op = "Save"
    /\ saved' = [g \in Kept(Head1.f) \cup {Head1.f} |->
                   IF g = Head1.f THEN SaveWorld(world) ELSE saved[g]]
    /\ boundary' = [g \in Kept(Head1.f) \cup {Head1.f} |->
                   IF g = Head1.f THEN world ELSE boundary[g]]
    /\ requests' = Tail(requests)
    /\ loaded' = -1
    /\ lastTick' = NoTick
    /\ UNCHANGED <<scenario, world, frame, localIn, remoteIn, usedIn, firstIncorrect,
                   ideal, elim, born, elimAt>>
    /\ UNCHANGED <<matchVars, timerVars, detVars, codecVars>>

LoadGameState ==
    /\ Running
    /\ requests # << >>
    /\ Head1.op = "Load"
    /\ world' = LoadWorld(world, saved[Head1.f])
    /\ loaded' = Head1.f
    /\ requests' = Tail(requests)
    /\ lastTick' = NoTick
    /\ UNCHANGED <<scenario, frame, saved, localIn, remoteIn, usedIn, firstIncorrect,
                   ideal, boundary, elim, born, elimAt>>
    /\ UNCHANGED <<matchVars, timerVars, detVars, codecVars>>

AdvanceFrame ==
    /\ Running
    /\ requests # << >>
    /\ Head1.op = "Advance"
    /\ world' = RollbackStage(world, Head1.inputs)
    /\ lastTick' = TickRecord(world, Head1.inputs)
    /\ elim' = elim \cup TickRecord(world, Head1.inputs).border
                    \cup TickRecord(world, Head1.inputs).trail
    /\ born' = Births(world, Head1.inputs, Head1.f, born)
    /\ elimAt' = [h \in Handles |->
                    IF elimAt[h].f = -1 /\ h \in lastTick'.border \cup lastTick'.trail
                    THEN [f  |-> Head1.f,
                          by |-> {world.trail[hk[2]].player_handle :
                                    hk \in {x \in lastTick'.hits : x[1] = h}}]
                    ELSE elimAt[h]]
    /\ requests' = Tail(requests)
    /\ loaded' = -1
    /\ UNCHANGED <<scenario, frame, saved, localIn, remoteIn, usedIn, firstIncorrect,
                   ideal, boundary>>
    /\ UNCHANGED <<matchVars, timerVars, detVars, codecVars>>

(***************************************************************************)
(* A FrameTimer on its own: built with any period, then ticked.            *)
(***************************************************************************)
TimerNew ==
    /\ tmState = "none"
    /\ \E frames \in 0 .. MaxPeriod :
         /\ tm' = new(frames)
         /\ tmPeriod' = frames
    /\ tmState' = "live"
    /\ UNCHANGED tmCalls
    /\ UNCHANGED <<matchVars, gameVars, detVars, codecVars>>

\* frames_left -= 1 on a frames_left of 0 panics in a build with overflow
\* checks and wraps in a build without
TimerTick ==
    /\ tmState = "live"
    /\ tmCalls < MaxCalls
    /\ tmCalls' = tmCalls + 1
    /\ IF tick_overflows(tm)
       THEN \E checks \in BOOLEAN :
              IF checks THEN tmState' = "panicked" /\ tm' = tm
              ELSE tmState' = tmState /\ tm' = tick(tm)
       ELSE tmState' = tmState /\ tm' = tick(tm)
    /\ UNCHANGED tmPeriod
    /\ UNCHANGED <<matchVars, gameVars, detVars, codecVars>>

(***************************************************************************)
(* Two runs of the schedule from the same world on the same input symbols: *)
(* the first with every input confirmed, the second with any statuses.     *)
(***************************************************************************)
Symbols == {0, INPUT_LEFT, INPUT_RIGHT, INPUT_DASH, BitOr(INPUT_LEFT, INPUT_RIGHT)}
Statuses == {"Confirmed", "Predicted"}
Run(s0, st0, s1, st1) == << [sym |-> s0, status |-> st0], [sym |-> s1, status |-> st1] >>

TwoRuns ==
    /\ runTicks < MaxRuns
    /\ \E s0 \in Symbols, s1 \in Symbols, a0 \in {"Confirmed"}, a1 \in {"Confirmed"},
          b0 \in Statuses, b1 \in Statuses :
         /\ runA' = [w |-> RollbackStage(runA.w, Run(s0, a0, s1, a1)),
                      inputs |-> Run(s0, a0, s1, a1)]
         /\ runB' = [w |-> RollbackStage(runB.w, Run(s0, b0, s1, b1)),
                      inputs |-> Run(s0, b0, s1, b1)]
    /\ runTicks' = runTicks + 1
    /\ UNCHANGED <<matchVars, gameVars, timerVars, codecVars>>

(***************************************************************************)
(* The input system on its own: called for a handle, with any keys down.   *)
(***************************************************************************)
ReadInput ==
    \E keys \in SUBSET KeyCodes, handle \in Handles :
        /\ pressed' = keys
        /\ asked' = handle
        /\ symbol' = input(keys)
        /\ UNCHANGED <<matchVars, gameVars, timerVars, detVars>>

(***************************************************************************)
(* Specifications.                                                         *)
(***************************************************************************)
Init ==
    /\ state = "Matchmaking"
    /\ socket = "Some"
    /\ connected = 0
    /\ players = 1
    /\ session = "None"
    /\ panic = "none"
    /\ transitions = 0
    /\ polls = "none"
    /\ scenario = NoScenario
    /\ world = NoWorld
    /\ frame = 0
    /\ saved = << >>
    /\ requests = << >>
    /\ localIn = << >>
    /\ remoteIn = << >>
    /\ usedIn = << >>
    /\ firstIncorrect = -1
    /\ ideal = NoWorld
    /\ boundary = << >>
    /\ loaded = -1
    /\ lastTick = NoTick
    /\ elim = {}
    /\ born = << >>
    /\ elimAt = [h \in Handles |-> [f |-> -1, by |-> {}]]
    /\ tm = new(0)
    /\ tmPeriod = 0
    /\ tmCalls = 0
    /\ tmState = "none"
    /\ runA = [w |-> spawn_players, inputs |-> << >>]
    /\ runB = [w |-> spawn_players, inputs |-> << >>]
    /\ runTicks = 0
    /\ pressed = {}
    /\ asked = 0
    /\ symbol = 0

Next ==
    \/ PeerConnects
    \/ WaitForPlayers
    \/ EnterInGame
    \/ Receive
    \/ SessionStep
    \/ SaveGameState
    \/ LoadGameState
    \/ AdvanceFrame

Spec == Init /\ [][Next]_vars

TimerNext == TimerNew \/ TimerTick
TimerSpec == Init /\ [][TimerNext]_vars

DetSpec == Init /\ [][TwoRuns]_vars

InputSpec == Init /\ [][ReadInput]_vars

(***************************************************************************)
(* Rollback and snapshots                                                  *)
(***************************************************************************)
Count(s, e) == Cardinality({k \in DOMAIN s : s[k] = e})
\* the same segments, each as many times, in any order
SameTrail(s, t) ==
    /\ Len(s) = Len(t)
    /\ \A k \in DOMAIN s : Count(s, s[k]) = Count(t, s[k])
SameWorld(v, w) == v.ents = w.ents /\ SameTrail(v.trail, w.trail)

\* every simulated frame has its confirmed remote input and no step is running
Settled ==
    /\ Running
    /\ requests = << >>
    /\ firstIncorrect = -1
    /\ Len(remoteIn) >= frame

\* C1: whenever every simulated frame has been (re)simulated with the confirmed
\* inputs of both players, the world is the one a simulation with the correct
\* inputs only has: entities, timers and trail segments.
C1_RollbackEquivalence == Settled => SameWorld(world, ideal)

\* C2: right after the snapshot of frame k has been loaded, the world is the
\* one that existed when frame k was saved: players, trail segments, timers.
C2_SnapshotComplete == loaded # -1 => SameWorld(world, boundary[loaded])

(***************************************************************************)
(* Determinism                                                             *)
(***************************************************************************)
\* C3: two runs of the schedule from the same world, given the same input
\* symbols tick by tick, have the same world after every tick, whatever the
\* status (confirmed or predicted) each run is given with the symbols.
C3_Determinism == runA.w = runB.w

\* both runs have made every tick, the last one on a turn and a dash, the
\* second run with predicted inputs, and segments have been spawned
C3_Witness ==
    /\ runTicks = MaxRuns
    /\ runA.inputs # runB.inputs
    /\ runB.inputs[1].status = "Predicted" /\ runB.inputs[2].status = "Predicted"
    /\ runA.inputs[1].sym = INPUT_LEFT /\ runA.inputs[2].sym = INPUT_DASH
    /\ runA.w.trail # << >>

(***************************************************************************)
(* FrameTimer                                                              *)
(***************************************************************************)
\* C4: a timer built with a period P >= 1 is finished after the calls number
\* P, 2P, 3P, ... of tick() and after no other call.
C4_TimerCorrectness ==
    (tmState = "live" /\ tmPeriod >= 1 /\ tmCalls >= 1)
        => (finished(tm) <=> tmCalls % tmPeriod = 0)

\* a timer of period 3 after its 6th tick, finished for the second time
C4_Witness == tmState = "live" /\ tmPeriod = 3 /\ tmCalls = 6 /\ finished(tm)

\* the timers of the world: the spawner of every entity and the death timer
\* of every trail segment
Timers(w) ==
    {w.ents[i].timer : i \in RollbackIds(w)}
    \cup {w.trail[k].death_timer : k \in DOMAIN w.trail}

InRange(timer) ==
    /\ U32Le(1, timer.reset_to)
    /\ U32Le(1, timer.frames_left)
    /\ U32Le(timer.frames_left, timer.reset_to)

\* C5: every timer of every reachable world, after any number of ticks, loads
\* and resimulations, has a period >= 1 and 1 <= frames_left <= period.
C5_TimerRange == \A timer \in Timers(world) : InRange(timer)

\* spawner timers at both ends of their range, next to a decaying segment and
\* an entity that a load has created anew
C5_Witness ==
    /\ \E i \in RollbackIds(world) : world.ents[i].timer.frames_left = 1
    /\ \E i \in RollbackIds(world) : world.ents[i].kind = "NoPlayer"
    /\ \E k \in DOMAIN world.trail :
         world.trail[k].death_timer.frames_left < TRAIL_LENGTH

\* C6: no timer is built with a period of 0 and then ticked.
C6_ZeroPeriodRejected == ~(tmState # "none" /\ tmPeriod = 0 /\ tmCalls >= 1)

C8_WaitsForPlayers ==
    players + connected < num_players
        => /\ state = "Matchmaking" /\ session = "None" /\ transitions = 0
           /\ socket = "Some" /\ panic = "none"
           /\ polls \in {"none", "waiting"}

\* a poll has run with the local player alone
C8_Witness == polls = "waiting" /\ players + connected < num_players

\* C9: once adding a player or starting the session has failed, the state is
\* Matchmaking, no session is installed, no transition has been made and no
\* player has been spawned.
C9_FailureIsFatal ==
    panic # "none"
        => /\ state = "Matchmaking" /\ session = "None" /\ transitions = 0
           /\ polls = "panicked" /\ ~Spawned

\* the session failed to start, after the socket was taken
C9_Witness == panic = "failed to start session" /\ socket = "None" /\ players = num_players

(***************************************************************************)
(* Elimination                                                             *)
(***************************************************************************)
\* the handles a schedule run processed or issued a despawn for
Touched(t) ==
    t.rotate \cup t.advance \cup t.spawner \cup t.spawned \cup t.checked
    \cup t.border \cup t.trail

\* C10: a handle that a despawn command has been issued for in an earlier
\* schedule run is not processed by any system of a later run, forward or
\* resimulated, and no later run issues a despawn for it.
C10_EliminationOnce == [][\A h \in elim : h \notin Touched(lastTick')]_vars

\* a schedule run made after an elimination, with an entity a load created anew
C10_Witness ==
    /\ lastTick.ran
    /\ elim # {}
    /\ lastTick.border = {} /\ lastTick.trail = {}
    /\ \E i \in RollbackIds(world) : world.ents[i].kind = "NoPlayer"

(***************************************************************************)
(* Scenarios                                                               *)
(***************************************************************************)
\* the frame the world stands at: the number of the tick made last
WorldFrame ==
    IF requests = << >> THEN frame
    ELSE IF Head1.op = "Load" THEN frame - 1
    ELSE Head1.f

\* no key has been pressed by either player in any frame so far
ZeroInput ==
    /\ Running
    /\ \A k \in DOMAIN localIn : localIn[k] = 0
    /\ \A k \in DOMAIN remoteIn : remoteIn[k] = 0
    /\ \A k \in DOMAIN usedIn : usedIn[k] = 0

\* the distance from the centre after t ticks straight ahead
StraightAt(t) == 1000 + MOVE_SPEED * t

\* C11: with no key pressed in any tick, after t ticks each player stands on
\* its start line MOVE_SPEED * t further out, heading unchanged, and is in
\* the roster as long as that distance is at most BOARD_SIZE / 2; the run
\* that first moves the players beyond it removes both, by the boundary
\* pass, and no trail collision has eliminated anyone.
C11_StraightLine ==
    ZeroInput =>
        /\ \A i \in DOMAIN world.ents :
             IF StraightAt(WorldFrame) <= BOARD_SIZE \div 2
             THEN world.ents[i] =
                    [spawn_players.ents[i] EXCEPT
                        !.x = (IF i = 1 THEN -1 ELSE 1) * StraightAt(WorldFrame),
                        !.timer = world.ents[i].timer]
             ELSE world.ents[i] = Despawned
        /\ lastTick.trail = {}
        /\ lastTick.border \in {{}, Handles}
        /\ lastTick.border = Handles
             => /\ StraightAt(WorldFrame) > BOARD_SIZE \div 2
                /\ StraightAt(WorldFrame - 1) <= BOARD_SIZE \div 2
        /\ \A h \in Handles :
             elimAt[h].f = (IF StraightAt(WorldFrame) <= BOARD_SIZE \div 2 THEN -1
                            ELSE CHOOSE t \in 0 .. WorldFrame :
                                   /\ StraightAt(t + 1) > BOARD_SIZE \div 2
                                   /\ StraightAt(t) <= BOARD_SIZE \div 2)

\* the run that moved both players beyond the boundary has just removed both
C11_Witness ==
    /\ ZeroInput
    /\ lastTick.ran /\ lastTick.border = Handles /\ lastTick.checked = Handles
    /\ world.ents = << Despawned, Despawned >>
    /\ StraightAt(WorldFrame - 1) = 4480

(***************************************************************************)
(* Trail                                                                   *)
(***************************************************************************)
\* the segments of the trail that handle h spawned in a run for frame f or
\* for frame f - 1: in a run for frame f, the ones it has just spawned
JustSpawned(h, f) ==
    {k \in DOMAIN world.trail :
        world.trail[k].player_handle = h /\ born[k] \in {f - 1, f}}

\* C12: no schedule run finds a player closer than the two half sizes to a
\* segment that this player has just spawned: not in a run for the frame the
\* segment was spawned for, and not in the run for the frame after it, the
\* first in which the collision pass sees the segment.
C12_NoSelfCollision ==
    [][lastTick'.ran
        => \A hk \in lastTick'.hits : hk[2] \notin JustSpawned(hk[1], Head1.f)]_vars

\* C13: every entity with a Player component has handle 0 or 1, no two have
\* the same, a handle no despawn was ever issued for has its player, every
\* trail segment has handle 0 or 1, and every schedule run about to be made
\* has an input for the handle of every player: spawn_trail's "invalid
\* handle" arm and an input index out of range are never reached.
C13_HandlesInRange ==
    Spawned =>
        /\ \A i \in PlayerQuery(world) : world.ents[i].handle \in Handles
        /\ \A i, j \in PlayerQuery(world) :
             world.ents[i].handle = world.ents[j].handle => i = j
        /\ \A h \in Handles \ elim :
             \E i \in PlayerQuery(world) : world.ents[i].handle = h
        /\ \A k \in DOMAIN world.trail : world.trail[k].player_handle \in Handles
        /\ (requests # << >> /\ Head1.op = "Advance")
             => \A i \in PlayerQuery(world) :
                  world.ents[i].handle + 1 \in DOMAIN Head1.inputs

\* a resimulation is about to run with both players in the roster and
\* segments of both in the trail
C13_Witness ==
    /\ requests # << >> /\ Head1.op = "Advance" /\ Head1.f < frame - 1
    /\ PlayerQuery(world) = {1, 2}
    /\ {world.trail[k].player_handle : k \in DOMAIN world.trail} = Handles

(***************************************************************************)
(* Input                                                                   *)
(***************************************************************************)
\* C14: the byte returned for any set of pressed keys has bit 0 set exactly
\* when Left or A is pressed, bit 1 exactly when Right or D is pressed, bit 2
\* exactly when Space or Return is pressed, each whatever the other keys
\* are, and no other bit; with no key pressed it is 0.
C14_InputCodec ==
    /\ HasFlag(symbol, 1) <=> ("Left" \in pressed \/ "A" \in pressed)
    /\ HasFlag(symbol, 2) <=> ("Right" \in pressed \/ "D" \in pressed)
    /\ HasFlag(symbol, 4) <=> ("Space" \in pressed \/ "Return" \in pressed)
    /\ symbol \in 0 .. 7
    /\ pressed = {} => symbol = 0

\* A, Right and D and Return pressed together, read for handle 1
C14_Witness ==
    /\ pressed = {"A", "Right", "D", "Return"}
    /\ asked = 1
    /\ symbol = 7

\* C16: a segment spawned in the run for frame b (tick b + 1) is removed in
\* the run for frame b + TRAIL_LENGTH (tick b + 1 + TRAIL_LENGTH) and in no
\* other run, so it is in the world at every tick boundary in between: the
\* run that spawns it and the run of its first decay tick leave it there,
\* and no step that is not a schedule run changes the trail.
C16_TrailLifetime ==
    [][/\ lastTick'.ran
          => /\ \A k \in DOMAIN world.trail :
                  k \in lastTick'.decayed <=> Head1.f = born[k] + TRAIL_LENGTH
             /\ Len(world'.trail) = Len(world.trail) - Cardinality(lastTick'.decayed)
                                      + Cardinality(lastTick'.spawned)
       /\ ~lastTick'.ran => world'.trail = world.trail]_vars

\* the segments that a schedule run has added to the trail
Added ==
    SubSeq(world'.trail, Len(world.trail) - Cardinality(lastTick'.decayed) + 1,
           Len(world'.trail))

\* C17: a schedule run for frame f, which is tick f + 1 of the players,
\* spawns one segment for each player in the roster when f + 1 is a multiple
\* of the spawn period 2, and none otherwise (none in tick 1); each segment
\* spawned has the handle of its spawner and a death timer with frames_left
\* and period both TRAIL_LENGTH.
C17_SpawnCadence ==
    [][lastTick'.ran
        => /\ lastTick'.spawned =
                (IF (Head1.f + 1) % SpawnPeriod = 0 THEN lastTick'.spawner ELSE {})
           /\ Len(Added) = Cardinality(lastTick'.spawned)
           /\ {Added[k].player_handle : k \in DOMAIN Added} = lastTick'.spawned
           /\ \A k \in DOMAIN Added :
                Added[k].death_timer =
                    [frames_left |-> TRAIL_LENGTH, reset_to |-> TRAIL_LENGTH]]_vars

\* a run has spawned for the one player left in the roster, after the other
\* was eliminated
C17_Witness ==
    /\ lastTick.ran
    /\ \E h \in Handles :
         /\ lastTick.spawned = {h} /\ lastTick.spawner = {h} /\ elim = {1 - h}
         /\ world.trail[Len(world.trail)].player_handle = h
         /\ world.trail[Len(world.trail)].death_timer.frames_left = TRAIL_LENGTH

\* the segments of the trail that handle h owns
Owned(h) == {k \in DOMAIN world.trail : world.trail[k].player_handle = h}

\* C18: whenever a session step is complete, after any rollbacks and
\* resimulations, each handle owns at most TRAIL_LENGTH / 2 = 40 segments of
\* the trail, and no two of them were spawned for the same frame.
C18_BoundedTrail ==
    (Running /\ requests = << >>)
        => \A h \in Handles :
             /\ Cardinality(Owned(h)) <= TRAIL_LENGTH \div SpawnPeriod
             /\ \A j, k \in Owned(h) : born[j] = born[k] => j = k

(***************************************************************************)
(* Pass ordering                                                           *)
(***************************************************************************)
\* player entity e after one turn by its input, then one step along the
\* heading it has after the turn, then one tick of its spawner
Moved(e, sym) ==
    LET turned == [e EXCEPT !.rot = e.rot + Angle(sym)]
        step == MOVE_SPEED * (IF HasFlag(sym, INPUT_DASH) THEN 2 ELSE 1)
    IN  [turned EXCEPT !.x = e.x + Round(LocalX(turned).x * step),
                       !.y = e.y + Round(LocalX(turned).y * step),
                       !.timer = tick(e.timer)]

\* entity e, where it stands after Moved, is outside the board or closer
\* than the two half sizes to a segment of trail t
Eliminated(e, t) ==
    \/ Dist2(e.x, e.y, 0, 0) > 4500 * 4500
    \/ \E k \in DOMAIN t : Dist2(e.x, e.y, t[k].x, t[k].y) < 475 * 475

RECURSIVE Behind(_, _, _)
\* the segments spawned behind the players of w, where they stand after Moved
Behind(w, inputs, i) ==
    IF i > Len(w.ents) THEN << >>
    ELSE LET e == Moved(w.ents[i], inputs[w.ents[i].handle + 1].sym)
         IN  (IF w.ents[i].kind = "Player" /\ finished(e.timer)
              THEN << NewTrail(e) >> ELSE << >>)
             \o Behind(w, inputs, i + 1)

\* the world after one tick on w: every player turned, then moved, then its
\* spawner ticked and a segment spawned behind where it now stands, every
\* segment of w aged by one tick and removed at its end, every player
\* tested for elimination where it now stands against the segments of w
OneTick(w, inputs) ==
    [ents  |-> [i \in DOMAIN w.ents |->
                  IF w.ents[i].kind # "Player" THEN w.ents[i]
                  ELSE LET e == Moved(w.ents[i], inputs[w.ents[i].handle + 1].sym)
                       IN  IF Eliminated(e, w.trail) THEN Despawned ELSE e],
     trail |-> SelectSeq([k \in DOMAIN w.trail |->
                             [w.trail[k] EXCEPT !.death_timer = tick(@)]],
                         LAMBDA seg : ~finished(seg.death_timer))
               \o Behind(w, inputs, 1)]

\* C15: every schedule run, for a new frame or for a resimulated one, does
\* to the world what the six passes do when each runs once, in the order
\* rotate, advance, spawn, decay, boundary, collision: the segment is
\* spawned behind, and both elimination tests are made on, the position and
\* heading the player has after this run's turn and step.
C15_PassOrder ==
    [][lastTick'.ran => world' = OneTick(world, Head1.inputs)]_vars

\* a resimulated run has turned a player and spawned a segment behind it
C15_Witness ==
    /\ lastTick.ran /\ lastTick.spawned # {}
    /\ requests # << >> /\ Head1.op = "Save" /\ Head1.f < frame
    /\ \E i \in PlayerQuery(world) : world.ents[i].rot # 0

(***************************************************************************)
(* Cleanup after elimination                                               *)
(***************************************************************************)
\* where segment k of the trail stands in the trail after a schedule run
\* that has not removed it
After(k) == k - Cardinality({j \in lastTick'.decayed : j < k})

\* C19: in every schedule run after the one that eliminated handle h, no
\* segment with handle h is spawned, every segment with handle h is aged by
\* one tick, or removed at the end of its life, and every player that
\* comes closer than the two half sizes to a segment with handle h is
\* eliminated; and once TRAIL_LENGTH further ticks have been made, the
\* trail has no segment with handle h.
C19_Cleanup ==
    [][/\ lastTick'.ran
          => /\ \A k \in DOMAIN Added : Added[k].player_handle \notin elim
             /\ lastTick'.spawned \cap elim = {}
             /\ \A k \in DOMAIN world.trail :
                  world.trail[k].player_handle \in elim
                      => IF world.trail[k].death_timer.frames_left = 1
                         THEN k \in lastTick'.decayed
                         ELSE /\ k \notin lastTick'.decayed
                              /\ world'.trail[After(k)] =
                                    [world.trail[k] EXCEPT !.death_timer.frames_left = @ - 1]
             /\ \A i \in PlayerQuery(world) :
                  LET e == Moved(world.ents[i], Head1.inputs[world.ents[i].handle + 1].sym)
                  IN  (\E k \in DOMAIN world.trail :
                          /\ world.trail[k].player_handle \in elim
                          /\ Dist2(e.x, e.y, world.trail[k].x, world.trail[k].y) < 475 * 475)
                      => world'.ents[i] = Despawned
       /\ \A h \in Handles :
            (/\ elimAt'[h].f # -1
             /\ requests' = << >>
             /\ frame' > elimAt'[h].f + TRAIL_LENGTH)
                => \A k \in DOMAIN world'.trail : world'.trail[k].player_handle # h]_vars

\* TRAIL_LENGTH ticks after player 1 was eliminated none of its segments is
\* left; player 0 was eliminated later, touching segments of player 1 only,
\* and its own segments still decay
C19_Witness ==
    /\ requests = << >>
    /\ elimAt[1].f # -1 /\ frame = elimAt[1].f + TRAIL_LENGTH + 1
    /\ Owned(1) = {} /\ Owned(0) # {}
    /\ elimAt[0].f > elimAt[1].f /\ elimAt[0].by = {1}

====
